---- MODULE Spec2Model ----
(***************************************************************************)
(* Stormwater network graph of GeoLens-Europa                              *)
(* (apps/api/src/services/stormwater/networkGraph.ts, runoffRisk.ts).      *)
(*                                                                         *)
(* Geometry.  Coordinates lie on one meridian and are given in whole       *)
(* metres along it, so haversineDistance is the absolute difference.  An   *)
(* H3 resolution-11 cell is cut by the meridian into intervals; the model  *)
(* uses intervals of CellSizeM metres and gridDisk(c, 1) is the cell with  *)
(* its two neighbours on the meridian, centre first.                       *)
(*                                                                         *)
(* Objects.  JavaScript node and edge objects are shared by reference      *)
(* between the builder's maps and every Network it returned, so the model  *)
(* keeps them in two heaps (nodeHeap, edgeHeap); maps and networks hold    *)
(* sequences of heap addresses in insertion order.                         *)
(*                                                                         *)
(* Numbers.  Elevations are whole decimetres.  A slope is a tagged         *)
(* fraction so that the IEEE results of a division by zero (NaN, +-Inf)    *)
(* stay visible.  Flows are whole thousandths (riskScore is rounded to 3   *)
(* decimals by the code).                                                  *)
(***************************************************************************)
EXTENDS Integers, Sequences, FiniteSets, TLC

VARIABLES
    snapToleranceM,  \* NetworkBuilder.snapToleranceM
    nodeHeap,        \* every Node object ever created, by address
    edgeHeap,        \* every Edge object ever created, by address
    nodes,           \* NetworkBuilder.nodes     : addresses, insertion order
    edges,           \* NetworkBuilder.edges     : addresses, insertion order
    h3IndexMap,      \* NetworkBuilder.h3IndexMap: cell -> node ids
    nets,            \* the Networks returned by build so far
    clock,           \* Date.now() at the last build call, in milliseconds
    risk,            \* what the last call returned, when it was computeRisk
    ret              \* what the last call returned or threw, when it was
                     \* findSnapCandidate, computeRunoffRisk or a failed call

vars == <<snapToleranceM, nodeHeap, edgeHeap, nodes, edges, h3IndexMap, nets, clock, risk, ret>>

-----------------------------------------------------------------------------
(* Bounds of the model *)

MaxPoints == 2      \* longest asset list of the point-only specification
MaxAssets == 3      \* longest asset list of the build specification
MaxLines == 2       \* longest asset list of the pipeline specification
MaxRepeat == 2      \* longest asset list of the repeated-build specification
MaxBuilds == 2      \* build calls per behaviour

(* Program constants *)

DefaultSnapToleranceM == 5
CellSizeM == 50
MinSlopeDen == 1000     \* MIN_SLOPE_EPS = 0.001 = 1 / MinSlopeDen
ITERATIONS == 20
DecayPerKm == 1         \* DECAY_K = 0.001 per metre
FlowScale == 1000       \* flows and risk scores are whole thousandths
PushThreshold == 1      \* q_in > 0.001
ConvergedBelow == 10    \* maxDelta < 0.01
DmPerM == 10            \* elevations are whole decimetres

(* Values of the environment *)

Coords == {0, 3, 6, 200}
OverrideSnapToleranceM == 250
Tolerances == {DefaultSnapToleranceM, OverrideSnapToleranceM}

-----------------------------------------------------------------------------
(* Helpers *)

Abs(x) == IF x < 0 THEN -x ELSE x

Min(a, b) == IF a < b THEN a ELSE b

haversineDistance(p, q) == Abs(p - q)

latLngToCell(pos) == pos \div CellSizeM

gridDisk(center) == <<center, center - 1, center + 1>>

\* A variant that looks only in the cell of the position itself
getSpatialBucketsCentreOnly(pos) == <<latLngToCell(pos)>>

getSpatialBuckets(pos) == gridDisk(latLngToCell(pos))

\* `node_${lat.toFixed(6)}_${lon.toFixed(6)}`
SynthId(pos) == "node_" \o ToString(pos)

\* Map.get on a map kept as a sequence of heap addresses: 0 when absent
RECURSIVE MapFind(_, _, _, _)
MapFind(heap, refs, id, i) ==
    IF i > Len(refs) THEN 0
    ELSE IF heap[refs[i]].id = id THEN refs[i]
    ELSE MapFind(heap, refs, id, i + 1)

MapGet(heap, refs, id) == MapFind(heap, refs, id, 1)

\* Map.set: an existing key keeps its place and takes the new value
MapSet(heap, refs, id, ref) ==
    IF MapGet(heap, refs, id) = 0 THEN Append(refs, ref)
    ELSE [i \in 1..Len(refs) |-> IF heap[refs[i]].id = id THEN ref ELSE refs[i]]

\* h3IndexMap.get(bucket) || []
BucketGet(h3, bucket) == IF bucket \in DOMAIN h3 THEN h3[bucket] ELSE <<>>

\* h3IndexMap.get(h3).push(id), creating the bucket when needed
BucketPush(h3, bucket, id) ==
    [c \in DOMAIN h3 \cup {bucket} |-> IF c = bucket THEN Append(BucketGet(h3, bucket), id) ELSE h3[c]]

-----------------------------------------------------------------------------
(* The builder.  b is a record of the builder's state while build runs:   *)
(* [tol, nheap, eheap, nodes, edges, h3, snaps, resolved].  resolved is    *)
(* history: for every raw coordinate the call resolved, in order, the id   *)
(* of the node it resolved to and whether that node existed already.       *)

\* The candidate loop of findSnapCandidate over one bucket
RECURSIVE ScanBucket(_, _, _, _, _)
ScanBucket(b, pos, cands, i, best) ==
    IF i > Len(cands) THEN best
    ELSE LET ref == MapGet(b.nheap, b.nodes, cands[i])
             dist == haversineDistance(pos, b.nheap[ref].pos)
         IN  IF ref = 0 THEN ScanBucket(b, pos, cands, i + 1, best)
             ELSE IF dist < best.dist
                  THEN ScanBucket(b, pos, cands, i + 1, [nodeId |-> cands[i], dist |-> dist, found |-> TRUE])
                  ELSE ScanBucket(b, pos, cands, i + 1, best)

\* The bucket loop of findSnapCandidate
RECURSIVE ScanBuckets(_, _, _, _, _)
ScanBuckets(b, pos, buckets, k, best) ==
    IF k > Len(buckets) THEN best
    ELSE ScanBuckets(b, pos, buckets, k + 1,
                     ScanBucket(b, pos, BucketGet(b.h3, buckets[k]), 1, best))

findSnapCandidate(b, pos) ==
    ScanBuckets(b, pos, getSpatialBuckets(pos), 1,
                [nodeId |-> "", dist |-> b.tol, found |-> FALSE])

NewNode(id, type, pos) ==
    [id |-> id, type |-> type, pos |-> pos, elevation |-> 0,
     h3Index |-> latLngToCell(pos), attachedCatchments |-> <<>>]

\* A variant that lets the later asset decide the type of the node it snaps to
addNodeMergesType(b, pos, type, existingId) ==
    LET snap == findSnapCandidate(b, pos)
        id == IF existingId # "" THEN existingId ELSE SynthId(pos)
        ref == Len(b.nheap) + 1
        heap2 == Append(b.nheap, NewNode(id, type, pos))
        old == MapGet(b.nheap, b.nodes, snap.nodeId)
    IN  IF snap.found
        THEN [b |-> [b EXCEPT !.nheap[old].type = type], ref |-> old]
        ELSE [b |-> [b EXCEPT !.nheap = heap2,
                              !.nodes = MapSet(b.nheap, b.nodes, id, ref),
                              !.h3 = BucketPush(b.h3, latLngToCell(pos), id)],
              ref |-> ref]

\* addNode: the builder after the call and the address of the node returned
addNode(b, pos, type, existingId) ==
    LET snap == findSnapCandidate(b, pos)
        id == IF existingId # "" THEN existingId ELSE SynthId(pos)
        ref == Len(b.nheap) + 1
        heap2 == Append(b.nheap, NewNode(id, type, pos))
    IN  IF snap.found
        THEN [b |-> b, ref |-> MapGet(b.nheap, b.nodes, snap.nodeId)]
        ELSE [b |-> [b EXCEPT !.nheap = heap2,
                              !.nodes = MapSet(b.nheap, b.nodes, id, ref),
                              !.h3 = BucketPush(b.h3, latLngToCell(pos), id)],
              ref |-> ref]

\* asset.properties.type || 'manhole'
PointType(asset) == IF asset.ptype # "" THEN asset.ptype ELSE "manhole"

\* build, step 1: one point asset
BuildPoint(b, asset) ==
    LET r == addNode(b, asset.coords[1], PointType(asset), asset.id)
    IN  [r.b EXCEPT !.resolved = Append(@, [pos |-> asset.coords[1], kind |-> "point",
                                            nodeId |-> r.b.nheap[r.ref].id,
                                            snapped |-> r.ref <= Len(b.nheap)])]

RECURSIVE BuildPoints(_, _, _)
BuildPoints(b, assets, i) ==
    IF i > Len(assets) THEN b
    ELSE IF assets[i].geom = "Point"
         THEN BuildPoints(BuildPoint(b, assets[i]), assets, i + 1)
         ELSE BuildPoints(b, assets, i + 1)

ZeroSlope == [kind |-> "num", n |-> 0, d |-> 1]

\* build, step 2: snap or create one end of a line asset
SnapEnd(b, pos) ==
    LET snap == findSnapCandidate(b, pos)
        r == IF snap.found
             THEN [b |-> [b EXCEPT !.snaps = @ + 1], ref |-> MapGet(b.nheap, b.nodes, snap.nodeId)]
             ELSE addNode(b, pos, "vertex", "")
    IN  [r EXCEPT !.b.resolved = Append(@, [pos |-> pos, kind |-> "end",
                                            nodeId |-> r.b.nheap[r.ref].id,
                                            snapped |-> snap.found])]

\* A variant that names the raw end coordinates instead of the resolved nodes
NewEdgeRawEnds(asset, startNode, endNode) ==
    [id |-> "edge_" \o asset.id,
     fromNodeId |-> SynthId(asset.coords[1]),
     toNodeId |-> SynthId(asset.coords[Len(asset.coords)]),
     length |-> haversineDistance(startNode.pos, endNode.pos),
     slope |-> ZeroSlope,
     assetId |-> asset.id,
     props |-> asset.props]

NewEdge(asset, startNode, endNode) ==
    [id |-> "edge_" \o asset.id,
     fromNodeId |-> startNode.id,
     toNodeId |-> endNode.id,
     length |-> haversineDistance(startNode.pos, endNode.pos),
     slope |-> ZeroSlope,
     assetId |-> asset.id,
     props |-> asset.props]

\* A variant that skips a line asset only when it has no vertex at all
BuildLineSkipsEmptyOnly(b, asset) ==
    IF Len(asset.coords) < 1 THEN b
    ELSE LET s == SnapEnd(b, asset.coords[1])
             e == SnapEnd(s.b, asset.coords[Len(asset.coords)])
             be == e.b
             edge == NewEdge(asset, be.nheap[s.ref], be.nheap[e.ref])
             eref == Len(be.eheap) + 1
         IN  [be EXCEPT !.eheap = Append(be.eheap, edge),
                        !.edges = MapSet(be.eheap, be.edges, edge.id, eref)]

\* build, step 2: one line asset
BuildLine(b, asset) ==
    IF Len(asset.coords) < 2 THEN b
    ELSE LET s == SnapEnd(b, asset.coords[1])
             e == SnapEnd(s.b, asset.coords[Len(asset.coords)])
             be == e.b
             edge == NewEdge(asset, be.nheap[s.ref], be.nheap[e.ref])
             eref == Len(be.eheap) + 1
         IN  [be EXCEPT !.eheap = Append(be.eheap, edge),
                        !.edges = MapSet(be.eheap, be.edges, edge.id, eref)]

RECURSIVE BuildLines(_, _, _)
BuildLines(b, assets, i) ==
    IF i > Len(assets) THEN b
    ELSE IF assets[i].geom = "LineString"
         THEN BuildLines(BuildLine(b, assets[i]), assets, i + 1)
         ELSE BuildLines(b, assets, i + 1)

RECURSIVE SumSeq(_, _)
SumSeq(s, i) == IF i > Len(s) THEN 0 ELSE s[i] + SumSeq(s, i + 1)

\* A variant of the nearest-node scan in which the last of the nodes at the
\* same distance wins
RECURSIVE NearestNodeLast(_, _, _, _, _)
NearestNodeLast(b, sum, n, i, best) ==
    IF i > Len(b.nodes) THEN best
    ELSE LET d == Abs(sum - n * b.nheap[b.nodes[i]].pos)
         IN  IF best.dist = -1 \/ d <= best.dist
             THEN NearestNodeLast(b, sum, n, i + 1, [ref |-> b.nodes[i], dist |-> d])
             ELSE NearestNodeLast(b, sum, n, i + 1, best)

\* The nearest-node scan of step 3.  The centroid is sum / n; distances are
\* compared multiplied by n, which keeps them whole.  best.ref = 0 is
\* nearestId = '' and best.dist = -1 is Infinity.
RECURSIVE NearestNode(_, _, _, _, _)
NearestNode(b, sum, n, i, best) ==
    IF i > Len(b.nodes) THEN best
    ELSE LET d == Abs(sum - n * b.nheap[b.nodes[i]].pos)
         IN  IF best.dist = -1 \/ d < best.dist
             THEN NearestNode(b, sum, n, i + 1, [ref |-> b.nodes[i], dist |-> d])
             ELSE NearestNode(b, sum, n, i + 1, best)

\* build, step 3: one catchment asset
AttachCatchment(b, asset) ==
    IF asset.geom # "Polygon" \/ Len(asset.coords) = 0 THEN b
    ELSE LET near == NearestNode(b, SumSeq(asset.coords, 1), Len(asset.coords), 1,
                                 [ref |-> 0, dist |-> -1])
         IN  IF near.ref = 0 THEN b
             ELSE [b EXCEPT !.nheap[near.ref].attachedCatchments = Append(@, asset.id)]

RECURSIVE AttachCatchments(_, _, _)
AttachCatchments(b, assets, i) ==
    IF i > Len(assets) THEN b
    ELSE IF assets[i].type = "catchment"
         THEN AttachCatchments(AttachCatchment(b, assets[i]), assets, i + 1)
         ELSE AttachCatchments(b, assets, i + 1)

NoRisk == [done |-> FALSE]

\* A call that returned nothing the model keeps
NoRet == [op |-> "none"]

\* The builder's state when build starts: snapCount = 0
BuilderState ==
    [tol |-> snapToleranceM, nheap |-> nodeHeap, eheap |-> edgeHeap,
     nodes |-> nodes, edges |-> edges, h3 |-> h3IndexMap, snaps |-> 0, resolved |-> <<>>]

\* The three passes of build, in the order of the code
BuildPasses(b, assets) ==
    AttachCatchments(BuildLines(BuildPoints(b, assets, 1), assets, 1), assets, 1)

\* The Network object build returns.  input, fresh, tol and resolved are
\* history: the asset list of the call, whether the builder was still empty,
\* the builder's tolerance and what each raw coordinate resolved to.
NetworkOf(b, assets, now, fresh) ==
    [id |-> now,
     nodes |-> b.nodes,
     edges |-> b.edges,
     assets |-> [i \in 1..Len(assets) |-> assets[i].id],
     stats |-> [nodeCount |-> Len(b.nodes), edgeCount |-> Len(b.edges), snaps |-> b.snaps],
     input |-> assets,
     fresh |-> fresh,
     tol |-> b.tol,
     resolved |-> b.resolved]

\* build(assets) at clock time now
Build(assets, now) ==
    /\ Len(nets) < MaxBuilds
    /\ now >= clock
    /\ \E b \in {BuildPasses(BuilderState, assets)} :
           /\ nodeHeap' = b.nheap
           /\ edgeHeap' = b.eheap
           /\ nodes' = b.nodes
           /\ edges' = b.edges
           /\ h3IndexMap' = b.h3
           /\ nets' = Append(nets, NetworkOf(b, assets, now, nodes = <<>> /\ edges = <<>>))
    /\ clock' = now
    /\ risk' = NoRisk
    /\ ret' = NoRet
    /\ UNCHANGED snapToleranceM

\* new NetworkBuilder(): empty maps, tolerance from SNAP_TOLERANCE_M
NewBuilder(tol) ==
    /\ nets # <<>>
    /\ nodes # <<>> \/ edges # <<>>
    /\ snapToleranceM' = tol
    /\ nodes' = <<>>
    /\ edges' = <<>>
    /\ h3IndexMap' = <<>>
    /\ risk' = NoRisk
    /\ ret' = NoRet
    /\ UNCHANGED <<nodeHeap, edgeHeap, nets, clock>>

InitBuilder ==
    /\ snapToleranceM \in Tolerances
    /\ nodeHeap = <<>>
    /\ edgeHeap = <<>>
    /\ nodes = <<>>
    /\ edges = <<>>
    /\ h3IndexMap = <<>>
    /\ nets = <<>>
    /\ clock = 0
    /\ risk = NoRisk
    /\ ret = NoRet

\* The environment that does not set SNAP_TOLERANCE_M
InitDefault == InitBuilder /\ snapToleranceM = DefaultSnapToleranceM

\* Object.keys(net.nodes) and Object.keys(net.edges)
NodeKeys(net) == {nodeHeap[net.nodes[i]].id : i \in 1..Len(net.nodes)}

EdgeKeys(net) == {edgeHeap[net.edges[i]].id : i \in 1..Len(net.edges)}

-----------------------------------------------------------------------------
(* Phase 2: elevation and orientation *)

\* The distinct cells of the nodes of a network
NetCells(net) == {nodeHeap[net.nodes[i]].h3Index : i \in 1..Len(net.nodes)}

\* A variant that resets the elevation of a node whose cell has no numeric
\* result
EnrichedOrReset(node, elevationMap) ==
    IF node.h3Index \in DOMAIN elevationMap
    THEN [node EXCEPT !.elevation = elevationMap[node.h3Index]]
    ELSE [node EXCEPT !.elevation = 0]

\* Step 3 of enrichWithElevation for one node: el !== undefined
Enriched(node, elevationMap) ==
    IF node.h3Index \in DOMAIN elevationMap
    THEN [node EXCEPT !.elevation = elevationMap[node.h3Index]]
    ELSE node

\* enrichWithElevation(nets[k]); elevationMap holds the numeric elevations
\* getDataForCells returned, by cell
EnrichWithElevation(k, elevationMap) ==
    /\ k \in 1..Len(nets)
    /\ DOMAIN elevationMap \subseteq NetCells(nets[k])
    /\ nodeHeap' = [r \in 1..Len(nodeHeap) |->
                        IF \E i \in 1..Len(nets[k].nodes) : nets[k].nodes[i] = r
                        THEN Enriched(nodeHeap[r], elevationMap)
                        ELSE nodeHeap[r]]
    /\ risk' = NoRisk
    /\ ret' = NoRet
    /\ UNCHANGED <<snapToleranceM, edgeHeap, nodes, edges, h3IndexMap, nets, clock>>

\* dz / edge.length as IEEE arithmetic gives it: dz is in decimetres and the
\* length in metres, so the quotient is n / d with d = DmPerM * length;
\* a zero length gives NaN, +Infinity or -Infinity
Quotient(dz, length) ==
    IF length # 0 THEN [kind |-> "num", n |-> dz, d |-> DmPerM * length]
    ELSE IF dz = 0 THEN [kind |-> "nan", n |-> 0, d |-> 0]
    ELSE IF dz > 0 THEN [kind |-> "inf", n |-> 1, d |-> 0]
    ELSE [kind |-> "inf", n |-> -1, d |-> 0]

\* Math.abs(slope) < MIN_SLOPE_EPS; every comparison with NaN is false
AbsBelowEps(slope) == slope.kind = "num" /\ Abs(slope.n) * MinSlopeDen < slope.d

\* slope < 0
IsNegative(slope) == slope.kind # "nan" /\ slope.n < 0

\* -slope
Negate(slope) == [slope EXCEPT !.n = -slope.n]

\* A variant that corrects the slope of an uphill edge without turning it
OrientEdgeNoSwap(edge, nodeFrom, nodeTo) ==
    LET slope == Quotient(nodeFrom.elevation - nodeTo.elevation, edge.length)
    IN  IF AbsBelowEps(slope)
        THEN [edge EXCEPT !.slope = slope,
                          !.props = [direction |-> "unknown", isFlat |-> TRUE]]
        ELSE [edge EXCEPT !.slope = IF IsNegative(slope) THEN Negate(slope) ELSE slope,
                          !.props.direction = "downhill"]

\* The body of the loop of orientEdges for one edge whose two nodes exist
OrientEdge(edge, nodeFrom, nodeTo) ==
    LET slope == Quotient(nodeFrom.elevation - nodeTo.elevation, edge.length)
    IN  IF AbsBelowEps(slope)
        THEN [edge EXCEPT !.slope = slope,
                          !.props = [direction |-> "unknown", isFlat |-> TRUE]]
        ELSE IF IsNegative(slope)
        THEN [edge EXCEPT !.fromNodeId = edge.toNodeId,
                          !.toNodeId = edge.fromNodeId,
                          !.slope = Negate(slope),
                          !.props.direction = "downhill"]
        ELSE [edge EXCEPT !.slope = slope,
                          !.props.direction = "downhill"]

\* orientEdges(nets[k])
OrientEdges(k) ==
    /\ k \in 1..Len(nets)
    /\ edgeHeap' = [r \in 1..Len(edgeHeap) |->
                        LET edge == edgeHeap[r]
                            fromRef == MapGet(nodeHeap, nets[k].nodes, edge.fromNodeId)
                            toRef == MapGet(nodeHeap, nets[k].nodes, edge.toNodeId)
                        IN  IF /\ \E i \in 1..Len(nets[k].edges) : nets[k].edges[i] = r
                               /\ fromRef # 0 /\ toRef # 0
                            THEN OrientEdge(edge, nodeHeap[fromRef], nodeHeap[toRef])
                            ELSE edge]
    /\ risk' = NoRisk
    /\ ret' = NoRet
    /\ UNCHANGED <<snapToleranceM, nodeHeap, nodes, edges, h3IndexMap, nets, clock>>

-----------------------------------------------------------------------------
(* runoffRisk.ts.  Rain is in whole millimetres, slope in whole degrees;  *)
(* imperviousness is in hundredths.  rainF * imp * slopeMulti is then the  *)
(* fraction RawNum / RawDen, which keeps the arithmetic exact.             *)

RawDen == 150000        \* 50 (rain) * 100 (imperviousness) * 30 (slope)

\* A variant that gives forests the imperviousness of wetlands
getImperviousnessCoarse(clcCode) ==
    IF clcCode = 0 THEN 50
    ELSE IF clcCode >= 100 /\ clcCode < 200 THEN 90
    ELSE IF clcCode >= 200 /\ clcCode < 300 THEN 40
    ELSE IF clcCode >= 300 /\ clcCode < 500 THEN 20
    ELSE IF clcCode >= 500 THEN -1
    ELSE 50

\* getImperviousness, in hundredths; -1 is null.  A missing code is 0.
getImperviousness(clcCode) ==
    IF clcCode = 0 THEN 50
    ELSE IF clcCode >= 100 /\ clcCode < 200 THEN 90
    ELSE IF clcCode >= 200 /\ clcCode < 300 THEN 40
    ELSE IF clcCode >= 300 /\ clcCode < 400 THEN 15
    ELSE IF clcCode >= 400 /\ clcCode < 500 THEN 20
    ELSE IF clcCode >= 500 THEN -1
    ELSE 50

\* input.clcClass: undefined (0 here) when the caller passed no such field
ClcClassOf(input) == IF "clcClass" \in DOMAIN input THEN input.clcClass ELSE 0

\* The imperviousness computeRunoffRisk works with (wetland saturation applied)
Impervious(input) ==
    LET clc == ClcClassOf(input)
    IN  IF clc >= 400 /\ clc < 500 /\ input.rain24h_mm > 30 THEN 80
        ELSE getImperviousness(clc)

\* rawScore * RawDen
RawNum(input) ==
    Min(input.rain24h_mm, 50) * Impervious(input) * (15 + Min(input.slope_deg, 30))

\* finalScore * RawDen
FinalNum(input) == Min(RawNum(input), RawDen)

RiskClass(finalNum) ==
    IF finalNum * 10 > 8 * RawDen THEN "EXTREME"
    ELSE IF finalNum * 10 > 5 * RawDen THEN "HIGH"
    ELSE IF finalNum * 10 > 2 * RawDen THEN "MODERATE"
    ELSE "LOW"

\* Number(x.toFixed(3)) of x = num / RawDen, in thousandths: the quotient
\* rounded to the nearest thousandth.  When the quotient lies exactly halfway
\* between two thousandths the representation error of the double decides in
\* the code; the inputs of the model give no such quotient.
ToFixed3(num) == (num * FlowScale + RawDen \div 2) \div RawDen

computeRunoffRisk(input) ==
    IF getImperviousness(ClcClassOf(input)) = -1 THEN [isNull |-> TRUE]
    ELSE [isNull |-> FALSE,
          riskScore |-> ToFixed3(FinalNum(input)),
          riskClass |-> RiskClass(FinalNum(input)),
          factors |-> [rain |-> Min(input.rain24h_mm, 50) * 2,
                       impervious |-> Impervious(input),
                       slope |-> ((15 + Min(input.slope_deg, 30)) * 100 + 15) \div 30]]

-----------------------------------------------------------------------------
(* Phase 3: the risk engine *)

\* Math.exp(-DECAY_K * length), in thousandths: the power series of exp on
\* millionths, rounded
RECURSIVE ExpSeries(_, _, _)
ExpSeries(x, term, n) ==
    IF term = 0 THEN 0
    ELSE term - ExpSeries(x, (term * x) \div (1000 * n), n + 1)

ExpDecay(length) == (ExpSeries(DecayPerKm * length, 1000000, 1) + 500) \div 1000

\* (q * num) / den on whole numbers without leaving 32 bits
MulDiv(q, num, den) == (q \div den) * num + ((q % den) * num) \div den

\* map.get(key) || 0
GetOr0(map, key) == IF key \in DOMAIN map THEN map[key] ELSE 0

\* map.set(key, value)
MapPut(map, key, value) == [x \in DOMAIN map \cup {key} |-> IF x = key THEN value ELSE map[x]]

\* The arguments contribute passes to computeRunoffRisk for the cell data d
RunoffInputOf(d) ==
    [rain24h_mm |-> d.precipitation_mm,
     clc_code |-> IF d.clc_code # 0 THEN d.clc_code ELSE 999,
     slope_deg |-> d.slope]

\* contribute(h3): acc is [localFlow, maxRisk, failed]; reading riskScore
\* of a null result throws
Contribute(cellDataMap, h3, acc) ==
    IF h3 \notin DOMAIN cellDataMap THEN acc
    ELSE LET r == computeRunoffRisk(RunoffInputOf(cellDataMap[h3]))
         IN  IF r.isNull THEN [acc EXCEPT !.failed = TRUE]
             ELSE [localFlow |-> acc.localFlow + r.riskScore,
                   maxRisk |-> IF r.riskScore > acc.maxRisk THEN r.riskScore ELSE acc.maxRisk,
                   failed |-> acc.failed]

RECURSIVE ContributeAll(_, _, _, _)
ContributeAll(cellDataMap, cells, i, acc) ==
    IF i > Len(cells) THEN acc
    ELSE ContributeAll(cellDataMap, cells, i + 1, Contribute(cellDataMap, cells[i], acc))

\* The cells the asset store keeps for an asset (h3Cells): the cells its
\* coordinates span, in ascending order
RECURSIVE CellRange(_, _)
CellRange(lo, hi) == IF lo > hi THEN <<>> ELSE <<lo>> \o CellRange(lo + 1, hi)

SeqMin(s) == CHOOSE x \in {s[i] : i \in 1..Len(s)} : \A j \in 1..Len(s) : x <= s[j]

SeqMax(s) == CHOOSE x \in {s[i] : i \in 1..Len(s)} : \A j \in 1..Len(s) : x >= s[j]

H3Cells(asset) ==
    IF asset.coords = <<>> THEN <<>>
    ELSE CellRange(latLngToCell(SeqMin(asset.coords)), latLngToCell(SeqMax(asset.coords)))

\* assetsMap.get(cid): the last asset of the request with that id, as a
\* sequence of at most one asset
AssetsMapGet(input, cid) ==
    LET idx == {i \in 1..Len(input) : input[i].id = cid}
    IN  IF idx = {} THEN <<>>
        ELSE <<input[CHOOSE i \in idx : \A j \in idx : j <= i]>>

\* The loop over node.attachedCatchments of the local-inflow step
RECURSIVE ContributeCatchments(_, _, _, _, _)
ContributeCatchments(cellDataMap, input, cids, i, acc) ==
    IF i > Len(cids) THEN acc
    ELSE LET found == AssetsMapGet(input, cids[i])
             cells == IF found = <<>> THEN <<>> ELSE H3Cells(found[1])
         IN  ContributeCatchments(cellDataMap, input, cids, i + 1,
                                  ContributeAll(cellDataMap, cells, 1, acc))

\* Local inflow of one node: its catchments' cells, then its own cell
LocalInflow(cellDataMap, input, node) ==
    Contribute(cellDataMap, node.h3Index,
               ContributeCatchments(cellDataMap, input, node.attachedCatchments, 1,
                                    [localFlow |-> 0, maxRisk |-> 0, failed |-> FALSE]))

\* cellsToFetch
CellsToFetch(net) ==
    UNION {{nodeHeap[net.nodes[i]].h3Index}
              \cup UNION {LET found == AssetsMapGet(net.input, nodeHeap[net.nodes[i]].attachedCatchments[c])
                          IN  IF found = <<>> THEN {}
                              ELSE {H3Cells(found[1])[j] : j \in 1..Len(H3Cells(found[1]))}
                          : c \in 1..Len(nodeHeap[net.nodes[i]].attachedCatchments)}
           : i \in 1..Len(net.nodes)}

\* new Map<string, number>()
NoFlows == [x \in {} |-> 0]

\* A variant of the edge loop that takes the pushed flow away from the
\* from-node
RECURSIVE PushEdgesTransfers(_, _, _, _)
PushEdgesTransfers(net, flowState, i, st) ==
    IF i > Len(net.edges) THEN st
    ELSE LET edge == edgeHeap[net.edges[i]]
             q_in == GetOr0(flowState, edge.fromNodeId)
             decay == ExpDecay(edge.length)
             q_out == IF edge.props.direction = "unknown"
                      THEN MulDiv(q_in, decay, 2 * FlowScale)
                      ELSE MulDiv(q_in, decay, FlowScale)
             taken == MapPut(st.next, edge.fromNodeId, GetOr0(st.next, edge.fromNodeId) - q_out)
         IN  IF q_in > PushThreshold
             THEN PushEdgesTransfers(net, flowState, i + 1,
                            [next |-> MapPut(taken, edge.toNodeId, GetOr0(taken, edge.toNodeId) + q_out),
                             edgeFlows |-> MapPut(st.edgeFlows, edge.id, q_out)])
             ELSE PushEdgesTransfers(net, flowState, i + 1, st)

\* A variant of the edge loop that keeps the first flow recorded for an edge
RECURSIVE PushEdgesKeepsFirst(_, _, _, _)
PushEdgesKeepsFirst(net, flowState, i, st) ==
    IF i > Len(net.edges) THEN st
    ELSE LET edge == edgeHeap[net.edges[i]]
             q_in == GetOr0(flowState, edge.fromNodeId)
             decay == ExpDecay(edge.length)
             q_out == IF edge.props.direction = "unknown"
                      THEN MulDiv(q_in, decay, 2 * FlowScale)
                      ELSE MulDiv(q_in, decay, FlowScale)
         IN  IF q_in > PushThreshold
             THEN PushEdgesKeepsFirst(net, flowState, i + 1,
                            [next |-> MapPut(st.next, edge.toNodeId, GetOr0(st.next, edge.toNodeId) + q_out),
                             edgeFlows |-> IF edge.id \in DOMAIN st.edgeFlows THEN st.edgeFlows
                                           ELSE MapPut(st.edgeFlows, edge.id, q_out)])
             ELSE PushEdgesKeepsFirst(net, flowState, i + 1, st)

\* The edge loop of one iteration: st is [next, edgeFlows]
RECURSIVE PushEdges(_, _, _, _)
PushEdges(net, flowState, i, st) ==
    IF i > Len(net.edges) THEN st
    ELSE LET edge == edgeHeap[net.edges[i]]
             q_in == GetOr0(flowState, edge.fromNodeId)
             decay == ExpDecay(edge.length)
             q_out == IF edge.props.direction = "unknown"
                      THEN MulDiv(q_in, decay, 2 * FlowScale)
                      ELSE MulDiv(q_in, decay, FlowScale)
         IN  IF q_in > PushThreshold
             THEN PushEdges(net, flowState, i + 1,
                            [next |-> MapPut(st.next, edge.toNodeId, GetOr0(st.next, edge.toNodeId) + q_out),
                             edgeFlows |-> MapPut(st.edgeFlows, edge.id, q_out)])
             ELSE PushEdges(net, flowState, i + 1, st)

\* A variant of the damping that forgets the old flow
DampedWithoutOld(q_old, q_new) == q_new \div 2

\* (1 - DAMPING) * q_old + DAMPING * q_new with DAMPING = 0.5
Damped(q_old, q_new) == (q_old + q_new) \div 2

\* The damping loop of one iteration
DampedState(flowState, next) ==
    [nid \in DOMAIN flowState \cup DOMAIN next |->
        IF nid \in DOMAIN next THEN Damped(GetOr0(flowState, nid), next[nid]) ELSE flowState[nid]]

SetMax(S) == IF S = {} THEN 0 ELSE CHOOSE x \in S : \A y \in S : y <= x

MaxDelta(flowState, next) ==
    SetMax({Abs(Damped(GetOr0(flowState, nid), next[nid]) - GetOr0(flowState, nid)) : nid \in DOMAIN next})

\* A variant with an off-by-one loop bound
LoopGuardInclusive(iter) == iter <= ITERATIONS

\* for (let iter = 0; iter < ITERATIONS; iter++)
LoopGuard(iter) == iter < ITERATIONS

\* A variant that leaves the loop only when no flow changed at all
ConvergedAtRest(maxDelta) == maxDelta = 0

\* if (maxDelta < 0.01) break
Converged(maxDelta) == maxDelta < ConvergedBelow

\* The propagation loop from iteration iter on.  executed counts the
\* iterations whose body ran; converged tells whether the loop left by break.
RECURSIVE Propagate(_, _, _, _, _)
Propagate(net, nodeFlows, iter, flowState, edgeFlows) ==
    IF ~LoopGuard(iter)
    THEN [flowState |-> flowState, edgeFlows |-> edgeFlows, executed |-> iter, converged |-> FALSE]
    ELSE LET st == PushEdges(net, flowState, 1, [next |-> nodeFlows, edgeFlows |-> edgeFlows])
             after == DampedState(flowState, st.next)
         IN  IF Converged(MaxDelta(flowState, st.next))
             THEN [flowState |-> after, edgeFlows |-> st.edgeFlows, executed |-> iter + 1, converged |-> TRUE]
             ELSE Propagate(net, nodeFlows, iter + 1, after, st.edgeFlows)

\* risk_stats of the result
RiskStats(run) == [iterations |-> ITERATIONS]

\* The value computeRisk returns.  executed and converged are history.
RiskResult(k, net, local, run) ==
    [done |-> TRUE,
     failed |-> FALSE,
     net |-> k,
     nodes |-> [nid \in NodeKeys(net) |->
                   [local_inflow |-> local[nid].localFlow,
                    flow_accumulated |-> run.flowState[nid],
                    risk_max |-> local[nid].maxRisk]],
     edges |-> [eid \in EdgeKeys(net) |->
                   [flow |-> GetOr0(run.edgeFlows, eid),
                    direction |-> edgeHeap[MapGet(edgeHeap, net.edges, eid)].props.direction]],
     risk_stats |-> RiskStats(run),
     executed |-> run.executed,
     converged |-> run.converged]

\* computeRisk(nets[k]); cellDataMap is what getDataForCells returned
ComputeRisk(k, cellDataMap) ==
    /\ k \in 1..Len(nets)
    /\ DOMAIN cellDataMap = CellsToFetch(nets[k])
    /\ \E local \in {[nid \in NodeKeys(nets[k]) |->
                         LocalInflow(cellDataMap, nets[k].input,
                                     nodeHeap[MapGet(nodeHeap, nets[k].nodes, nid)])]} :
           IF \E nid \in DOMAIN local : local[nid].failed
           THEN risk' = [done |-> TRUE, failed |-> TRUE]
           ELSE \E run \in {Propagate(nets[k], [nid \in DOMAIN local |-> local[nid].localFlow], 0,
                                      [nid \in DOMAIN local |-> local[nid].localFlow], NoFlows)} :
                    risk' = RiskResult(k, nets[k], local, run)
    /\ ret' = NoRet
    /\ UNCHANGED <<snapToleranceM, nodeHeap, edgeHeap, nodes, edges, h3IndexMap, nets, clock>>

-----------------------------------------------------------------------------
(* Asset lists *)

NoProps == [direction |-> "none", isFlat |-> FALSE]

PointAsset(id, pos, ptype) ==
    [id |-> id, type |-> "point", geom |-> "Point", coords |-> <<pos>>,
     ptype |-> ptype, props |-> NoProps]

LineAsset(id, coords) ==
    [id |-> id, type |-> "pipe", geom |-> "LineString", coords |-> coords,
     ptype |-> "", props |-> NoProps]

\* The lists of at most n elements of S
SeqsUpTo(S, n) == UNION {[1..k -> S] : k \in 0..n}

\* Point-only requests: every id (also a missing one) and declared type
PointAssets ==
    {PointAsset(id, pos, ptype) : id \in {"a", "b", ""}, pos \in Coords, ptype \in {"", "outfall"}}

\* One request of point assets to a builder that has built nothing yet
BuildPointsOnly == nets = <<>> /\ \E assets \in SeqsUpTo(PointAssets, MaxPoints) : Build(assets, clock)

NextPts == BuildPointsOnly

SpecPts == InitBuilder /\ [][NextPts]_vars

-----------------------------------------------------------------------------
(* The pipeline: build, enrich, orient, compute risk *)

Elevations == {0, 1, 50}    \* decimetres
Rains == {0, 50}            \* millimetres in 24 h

\* Pipes between two cells in both directions (two of them can close a
\* cycle) and pipes shorter than the tolerance (both ends on one node)
PipeAssets ==
    {LineAsset("p", <<0, 200>>), LineAsset("q", <<200, 0>>),
     LineAsset("p", <<0, 3>>), LineAsset("q", <<3, 0>>)}

CellData == {[precipitation_mm |-> r, clc_code |-> 111, slope |-> 0] : r \in Rains}

BuildPipes == nets = <<>> /\ \E assets \in SeqsUpTo(PipeAssets, MaxLines) : Build(assets, clock)

\* A behaviour of the pipeline ends with the risk query: a call made after
\* computeRisk returned starts from a state reached without that query too.
Enrich ==
    /\ ~risk.done
    /\ \E k \in 1..Len(nets) :
        \E S \in SUBSET NetCells(nets[k]) :
            \E elevationMap \in [S -> Elevations] : EnrichWithElevation(k, elevationMap)

Orient == ~risk.done /\ \E k \in 1..Len(nets) : OrientEdges(k)

Risk ==
    /\ ~risk.done
    /\ \E k \in 1..Len(nets) :
        \E cellDataMap \in [CellsToFetch(nets[k]) -> CellData] : ComputeRisk(k, cellDataMap)

Next == BuildPipes \/ Enrich \/ Orient \/ Risk

Spec == InitDefault /\ [][Next]_vars

-----------------------------------------------------------------------------
(* Two point assets on a fresh builder *)

IsPoint(asset) == asset.geom = "Point"

\* net was built on a fresh builder from exactly two point assets
TwoPointBuild(net) ==
    /\ net.fresh
    /\ Len(net.input) = 2
    /\ IsPoint(net.input[1]) /\ IsPoint(net.input[2])

PairDistance(net) == haversineDistance(net.input[1].coords[1], net.input[2].coords[1])

\* C1: two point assets closer to each other than the snap tolerance, built
\* on a fresh builder, give a network with exactly one node.
C1_WithinToleranceOneNode ==
    \A i \in 1..Len(nets) :
        (TwoPointBuild(nets[i]) /\ PairDistance(nets[i]) < nets[i].tol)
            => (nets[i].stats.nodeCount = 1 /\ Cardinality(NodeKeys(nets[i])) = 1)

\* C2: two point assets farther apart than the snap tolerance, whatever
\* their ids and declared types, give a network with exactly two distinct
\* nodes.
C2_BeyondToleranceTwoNodes ==
    \A i \in 1..Len(nets) :
        (TwoPointBuild(nets[i]) /\ PairDistance(nets[i]) > nets[i].tol)
            => (nets[i].stats.nodeCount = 2 /\ Cardinality(NodeKeys(nets[i])) = 2)

-----------------------------------------------------------------------------
(* One request of point and line assets on a fresh builder *)

\* A line asset without its second vertex is a degenerate LineString
MixedAssets ==
    {PointAsset(id, pos, "") : id \in {"a", "b"}, pos \in Coords}
        \cup {LineAsset("p", <<s, e>>) : s \in Coords, e \in Coords}
        \cup {LineAsset("p", <<0>>)}

BuildMixed == nets = <<>> /\ \E assets \in SeqsUpTo(MixedAssets, MaxAssets) : Build(assets, clock)

NextBuild == BuildMixed

SpecBuild == InitDefault /\ [][NextBuild]_vars

\* C3: in a network built on a fresh builder, any two raw input coordinates
\* (point positions, first and last vertices of lines) closer to each other
\* than the snap tolerance resolved to the same node id.
C3_ToleranceIsEquivalence ==
    \A i \in 1..Len(nets) :
        nets[i].fresh =>
            \A j, k \in 1..Len(nets[i].resolved) :
                LET rj == nets[i].resolved[j]
                    rk == nets[i].resolved[k]
                IN  haversineDistance(rj.pos, rk.pos) < nets[i].tol => rj.nodeId = rk.nodeId

\* The positions of the point assets of a request
PointPositions(assets) == {assets[i].coords[1] : i \in {j \in 1..Len(assets) : IsPoint(assets[j])}}

\* The number of line ends of a call that lie closer than tol to a point asset
RECURSIVE EndsNearPoints(_, _, _, _)
EndsNearPoints(resolved, pts, tol, i) ==
    IF i > Len(resolved) THEN 0
    ELSE (IF resolved[i].kind = "end"
             /\ \E p \in pts : haversineDistance(resolved[i].pos, p) < tol
          THEN 1 ELSE 0) + EndsNearPoints(resolved, pts, tol, i + 1)

\* C10: points are processed before lines whatever the order of the list:
\* every line end closer than the tolerance to a point asset's position
\* resolves to a node that existed already (no vertex node is created for
\* it), and each such end is counted as a snap.
C10_LineEndsSnapToPoints ==
    \A i \in 1..Len(nets) :
        nets[i].fresh =>
            LET net == nets[i]
                pts == PointPositions(net.input)
            IN  /\ \A j \in 1..Len(net.resolved) :
                       (net.resolved[j].kind = "end"
                        /\ \E p \in pts : haversineDistance(net.resolved[j].pos, p) < net.tol)
                           => net.resolved[j].snapped
                /\ net.stats.snaps >= EndsNearPoints(net.resolved, pts, net.tol, 1)

-----------------------------------------------------------------------------
(* The same request built twice, on one builder or on two *)

BuildOnce == nets = <<>> /\ \E assets \in SeqsUpTo(MixedAssets, MaxRepeat) : Build(assets, clock)

\* The caller sends the request it sent before
Rebuild == nets # <<>> /\ Build(nets[Len(nets)].input, clock)

\* The caller makes a new builder in the same environment
Construct == NewBuilder(snapToleranceM)

NextTwice == BuildOnce \/ Rebuild \/ Construct

SpecTwice == InitBuilder /\ [][NextTwice]_vars

\* C9: two build calls with the identical asset list return networks with
\* the same nodeCount, edgeCount and snaps, on one builder instance as on two.
C9_BuildIsIdempotent ==
    \A i, j \in 1..Len(nets) :
        nets[i].input = nets[j].input => nets[i].stats = nets[j].stats

-----------------------------------------------------------------------------
(* Properties of the pipeline *)

EdgesOf(net) == {edgeHeap[net.edges[i]] : i \in 1..Len(net.edges)}

NodeOf(net, id) == nodeHeap[MapGet(nodeHeap, net.nodes, id)]

\* C4: in every network build returned, also after any enrichWithElevation
\* and orientEdges calls on it, the fromNodeId and the toNodeId of every
\* edge are keys of the network's node set.
C4_EdgeEndpointsExist ==
    \A k \in 1..Len(nets) :
        \A edge \in EdgesOf(nets[k]) :
            edge.fromNodeId \in NodeKeys(nets[k]) /\ edge.toNodeId \in NodeKeys(nets[k])

\* An edge that orientEdges swapped after its nodes were given elevations
C4_Witness ==
    \E k \in 1..Len(nets) :
        \E edge \in EdgesOf(nets[k]) :
            /\ edge.props.direction = "downhill"
            /\ edge.fromNodeId = "node_200" /\ edge.toNodeId = "node_0"
            /\ edge.assetId = "p"
            /\ NodeOf(nets[k], "node_200").elevation = 50

\* Every edge of nets[k] that is directed downhill runs from the higher to
\* the lower (or an equally high) node
DownhillDescends(k) ==
    \A edge \in EdgesOf(nets[k]) :
        edge.props.direction = "downhill"
            => NodeOf(nets[k], edge.fromNodeId).elevation >= NodeOf(nets[k], edge.toNodeId).elevation

\* C5: when orientEdges returns, every edge with direction = 'downhill' has
\* a from-node at least as high as its to-node, whatever the elevations.
C5_DownhillAfterOrient ==
    [][\A k \in 1..Len(nets) : OrientEdges(k) => DownhillDescends(k)']_vars

\* An edge built from the lower to the higher node that orientEdges turned
C5_Witness ==
    \E k \in 1..Len(nets) :
        \E edge \in EdgesOf(nets[k]) :
            /\ edge.props.direction = "downhill"
            /\ edge.assetId = "p" /\ edge.fromNodeId = "node_200"
            /\ NodeOf(nets[k], edge.fromNodeId).elevation > NodeOf(nets[k], edge.toNodeId).elevation

\* C6: once orientEdges has classified an edge and not flagged it flat, the
\* slope it stored is a well-defined number that is not negative; also for
\* an edge of length 0 whose two ends resolved to one node.
C6_SlopeIsNonNegativeNumber ==
    \A k \in 1..Len(nets) :
        \A edge \in EdgesOf(nets[k]) :
            (edge.props.direction # "none" /\ ~edge.props.isFlat)
                => (edge.slope.kind = "num" /\ edge.slope.n >= 0)

C8_ReportsIterationsExecuted ==
    risk.done => (~risk.failed /\ risk.risk_stats.iterations = risk.executed)

-----------------------------------------------------------------------------
(* findSnapCandidate against the nodes of a builder *)

MaxSnapNodes == 2   \* longest asset list of the snap specifications

\* Node positions: two in one cell, two on either side of a cell border
SnapCoords == {0, 6, 46, 54}

\* Query positions: between the node pairs, and far from every node
QueryCoords == {3, 4, 50, 200}

SnapAssets == {PointAsset(id, pos, "") : id \in {"a", "b"}, pos \in SnapCoords}

BuildSnapNodes == nets = <<>> /\ \E assets \in SeqsUpTo(SnapAssets, MaxSnapNodes) : Build(assets, clock)

\* One call findSnapCandidate(pos) on the builder as it is
FindSnap(pos) ==
    /\ ret' = [pos |-> pos, snap |-> findSnapCandidate(BuilderState, pos),
               op |-> "findSnapCandidate"]
    /\ UNCHANGED <<snapToleranceM, nodeHeap, edgeHeap, nodes, edges, h3IndexMap, nets, clock, risk>>

FindSnapAny == \E pos \in QueryCoords : FindSnap(pos)

NextSnap == BuildSnapNodes \/ FindSnapAny

SpecSnap == InitBuilder /\ [][NextSnap]_vars

SpecSnapDefault == InitDefault /\ [][NextSnap]_vars

\* The distance of the i-th node of the builder (insertion order) from pos
NodeDistance(i, pos) == haversineDistance(nodeHeap[nodes[i]].pos, pos)

\* The nodes of the builder closer to pos than the tolerance
WithinTolerance(pos) == {i \in 1..Len(nodes) : NodeDistance(i, pos) < snapToleranceM}

\* Those of them at minimal distance
Nearest(pos) ==
    {i \in WithinTolerance(pos) : \A j \in WithinTolerance(pos) : NodeDistance(i, pos) <= NodeDistance(j, pos)}

\* The first inserted of the nearest nodes
FirstNearest(pos) == CHOOSE i \in Nearest(pos) : \A j \in Nearest(pos) : i <= j

\* C11: when several nodes lie within the tolerance of the query,
\* findSnapCandidate returns one at minimal distance, and of the nodes at
\* that same minimal distance the one inserted first, whatever their buckets.
C11_NearestFirstInserted ==
    (ret.op = "findSnapCandidate" /\ Cardinality(WithinTolerance(ret.pos)) >= 2)
        => /\ ret.snap.found
           /\ ret.snap.nodeId = nodeHeap[nodes[FirstNearest(ret.pos)]].id

\* C12: for every configured tolerance the bucketed lookup answers as a
\* linear scan over all nodes does: it finds a node exactly when some node is
\* closer than the tolerance, and the node found is at minimal distance.
C12_BucketedEqualsLinearScan ==
    ret.op = "findSnapCandidate"
        => /\ ret.snap.found <=> WithinTolerance(ret.pos) # {}
           /\ ret.snap.found =>
                  \E i \in Nearest(ret.pos) :
                      /\ nodeHeap[nodes[i]].id = ret.snap.nodeId
                      /\ NodeDistance(i, ret.pos) = ret.snap.dist

-----------------------------------------------------------------------------
(* Catchments *)

MaxCatch == 3       \* longest asset list of the catchment specification

\* A catchment asset; coords is the outer ring of its geometry
CatchmentAsset(id, geom, ring) ==
    [id |-> id, type |-> "catchment", geom |-> geom, coords |-> ring,
     ptype |-> "", props |-> NoProps]

\* Two nodes 200 m apart; catchments whose centroid is halfway between them,
\* nearer to one of them, or undefined (empty ring), and one that is no polygon
CatchAssets ==
    {PointAsset(id, pos, "") : id \in {"a", "b"}, pos \in {0, 200}}
        \cup {CatchmentAsset("c", "Polygon", <<100, 100>>),
              CatchmentAsset("c", "Polygon", <<40, 50, 40>>),
              CatchmentAsset("d", "Polygon", <<150, 190, 150>>),
              CatchmentAsset("d", "Polygon", <<>>),
              CatchmentAsset("e", "MultiPolygon", <<100, 100>>)}

BuildCatch == nets = <<>> /\ \E assets \in SeqsUpTo(CatchAssets, MaxCatch) : Build(assets, clock)

NextCatch == BuildCatch

SpecCatch == InitDefault /\ [][NextCatch]_vars

IsCatchment(asset) == asset.type = "catchment"

\* No two catchment assets of the request carry the same id
DistinctCatchmentIds(assets) ==
    \A i, j \in 1..Len(assets) :
        (IsCatchment(assets[i]) /\ IsCatchment(assets[j]) /\ assets[i].id = assets[j].id) => i = j

\* How often id occurs in a list of ids
Occurrences(ids, id) == Cardinality({i \in 1..Len(ids) : ids[i] = id})

\* The places in net.nodes of the nodes that hold the catchment id
Holders(net, id) ==
    {i \in 1..Len(net.nodes) : Occurrences(nodeHeap[net.nodes[i]].attachedCatchments, id) > 0}

\* n times the distance of the i-th node of net from the centroid sum / n
CentroidDistance(net, i, ring) ==
    Abs(SumSeq(ring, 1) - Len(ring) * nodeHeap[net.nodes[i]].pos)

\* The first in insertion order of the nodes of net nearest to the centroid
NearestToCentroid(net, ring) ==
    CHOOSE i \in 1..Len(net.nodes) :
        /\ \A j \in 1..Len(net.nodes) : CentroidDistance(net, i, ring) <= CentroidDistance(net, j, ring)
        /\ \A j \in 1..(i - 1) : CentroidDistance(net, j, ring) > CentroidDistance(net, i, ring)

-----------------------------------------------------------------------------
(* Degenerate line assets *)

MaxSkip == 3        \* longest asset list of the degenerate-line specification

\* A point, two pipes, and line assets of one vertex or none (one of them
\* with the id of a pipe)
SkipAssets ==
    {PointAsset("a", 0, ""), LineAsset("p", <<0, 200>>), LineAsset("q", <<3, 200>>),
     LineAsset("d", <<100>>), LineAsset("d", <<>>), LineAsset("p", <<6>>)}

BuildSkip == nets = <<>> /\ \E assets \in SeqsUpTo(SkipAssets, MaxSkip) : Build(assets, clock)

NextSkip == BuildSkip

SpecSkip == InitDefault /\ [][NextSkip]_vars

IsDegenerate(asset) == asset.geom = "LineString" /\ Len(asset.coords) < 2

\* The list without its degenerate lines, order kept
RECURSIVE WithoutDegenerate(_)
WithoutDegenerate(assets) ==
    IF assets = <<>> THEN <<>>
    ELSE IF IsDegenerate(Head(assets)) THEN WithoutDegenerate(Tail(assets))
    ELSE <<Head(assets)>> \o WithoutDegenerate(Tail(assets))

\* A builder that has built nothing
EmptyBuilder(tol) ==
    [tol |-> tol, nheap |-> <<>>, eheap |-> <<>>, nodes |-> <<>>, edges |-> <<>>,
     h3 |-> <<>>, snaps |-> 0, resolved |-> <<>>]

\* C14: a line asset with fewer than two vertices is skipped: the nodes, the
\* edges and the snap count of the network are those of the request without
\* its degenerate lines, so it adds no node, no edge and no snap.
C14_DegenerateLineSkipped ==
    \A k \in 1..Len(nets) :
        nets[k].fresh =>
            LET b == BuildPasses(EmptyBuilder(nets[k].tol), WithoutDegenerate(nets[k].input))
            IN  /\ [i \in 1..Len(nets[k].nodes) |-> nodeHeap[nets[k].nodes[i]]]
                       = [i \in 1..Len(b.nodes) |-> b.nheap[b.nodes[i]]]
                /\ [i \in 1..Len(nets[k].edges) |-> edgeHeap[nets[k].edges[i]]]
                       = [i \in 1..Len(b.edges) |-> b.eheap[b.edges[i]]]
                /\ nets[k].stats = [nodeCount |-> Len(b.nodes), edgeCount |-> Len(b.edges),
                                    snaps |-> b.snaps]

\* A request of a one-vertex line with the id of the pipe that follows it,
\* and a line without vertices: one edge, two nodes, none at 6 m
C14_Witness ==
    \E k \in 1..Len(nets) :
        /\ nets[k].fresh
        /\ nets[k].input = <<LineAsset("p", <<6>>), LineAsset("p", <<0, 200>>), LineAsset("d", <<>>)>>
        /\ nets[k].stats = [nodeCount |-> 2, edgeCount |-> 1, snaps |-> 0]
        /\ \A i \in 1..Len(nets[k].nodes) : nodeHeap[nets[k].nodes[i]].pos # 6

-----------------------------------------------------------------------------
(* Frame of enrichWithElevation *)

\* A node without its elevation
SansElevation(node) == [node EXCEPT !.elevation = 0]

\* Whether the node at address r belongs to nets[k]
InNet(k, r) == \E i \in 1..Len(nets[k].nodes) : nets[k].nodes[i] = r

\* What a call enrichWithElevation(nets[k]) that got elevationMap must leave
EnrichedAsReturned(k, elevationMap) ==
    /\ Len(nodeHeap') = Len(nodeHeap)
    /\ \A r \in 1..Len(nodeHeap) :
           /\ SansElevation(nodeHeap'[r]) = SansElevation(nodeHeap[r])
           /\ nodeHeap'[r].elevation =
                  IF InNet(k, r) /\ nodeHeap[r].h3Index \in DOMAIN elevationMap
                  THEN elevationMap[nodeHeap[r].h3Index]
                  ELSE nodeHeap[r].elevation
    /\ edgeHeap' = edgeHeap
    /\ nets' = nets

\* C15: enrichWithElevation gives every node of the network the numeric
\* elevation returned for its cell, keeps the elevation of a node whose cell
\* has none, and changes nothing else of the nodes and nothing of the edges.
C15_EnrichSetsElevationOnly ==
    [][\A k \in 1..Len(nets) :
           \A S \in SUBSET NetCells(nets[k]) :
               \A elevationMap \in [S -> Elevations] :
                   EnrichWithElevation(k, elevationMap) => EnrichedAsReturned(k, elevationMap)]_vars

\* Two nodes in two cells with different elevations other than the
\* placeholder: the later of two calls had a result for one cell only, or
\* one call had results for both
C15_Witness ==
    \E k \in 1..Len(nets) :
        /\ Len(nets[k].nodes) = 2
        /\ nodeHeap[nets[k].nodes[1]].elevation = 1
        /\ nodeHeap[nets[k].nodes[2]].elevation = 50
        /\ nodeHeap[nets[k].nodes[1]].h3Index # nodeHeap[nets[k].nodes[2]].h3Index

-----------------------------------------------------------------------------
(* The sampling collaborator in strict mode *)

\* What getDataForCells throws when the verification of a required layer
\* fails in strict mode
VerificationFailed == [status |-> 503, failed_layer |-> "dem"]

\* enrichWithElevation(nets[k]) when getDataForCells throws: the await has
\* no handler around it, so the call rejects with the error before it
\* reaches a node
EnrichRejected(k) ==
    /\ k \in 1..Len(nets)
    /\ ret' = [op |-> "enrichWithElevation", net |-> k, threw |-> TRUE,
               error |-> VerificationFailed]
    /\ risk' = NoRisk
    /\ UNCHANGED <<snapToleranceM, nodeHeap, edgeHeap, nodes, edges, h3IndexMap, nets, clock>>

EnrichFails == \E k \in 1..Len(nets) : EnrichRejected(k)

NextStrict == BuildPipes \/ Enrich \/ EnrichFails \/ Orient

SpecStrict == InitDefault /\ [][NextStrict]_vars

\* C16: a failure of the sampling collaborator during enrichWithElevation is
\* caught; the call completes without handing the error to its caller.
C16_EnrichCatchesSamplingFailure ==
    ret.op = "enrichWithElevation" => ~ret.threw

-----------------------------------------------------------------------------
(* computeRunoffRisk on its own *)

\* Rain in mm: none, light, just above the wetland saturation limit, heavy,
\* the cap and beyond it
RunoffRains == {0, 10, 32, 46, 50, 80}

\* Slope in degrees, up to and beyond the cap
RunoffSlopes == {0, 3, 14, 30, 45}

\* Land-cover codes of every band; 0 is a missing code
RunoffCodes == {0, 100, 111, 250, 300, 450, 500, 600}

\* One call computeRunoffRisk(input)
RunoffRisk(input) ==
    /\ ret' = [op |-> "computeRunoffRisk", input |-> input, result |-> computeRunoffRisk(input)]
    /\ UNCHANGED <<snapToleranceM, nodeHeap, edgeHeap, nodes, edges, h3IndexMap, nets, clock, risk>>

RunoffRiskAny ==
    \E rain \in RunoffRains, clc \in RunoffCodes, slope \in RunoffSlopes :
        RunoffRisk([clcClass |-> clc, rain24h_mm |-> rain, slope_deg |-> slope])

NextRunoff == RunoffRiskAny

SpecRunoff == InitDefault /\ [][NextRunoff]_vars

\* The imperviousness of the reference function, in hundredths
ReferenceImperviousness(clc, rain) ==
    CASE clc = 0 -> 50
      [] clc \in 100..199 -> 90
      [] clc \in 200..299 -> 40
      [] clc \in 300..399 -> 15
      [] clc \in 400..499 -> IF rain > 30 THEN 80 ELSE 20

\* min(rainFactor * imperviousness * slopeMultiplier, 1) of the reference
\* function, rounded to thousandths: the product is
\* (min(rain, 50) / 50) * (imp / 100) * ((15 + min(slope, 30)) / 30)
ReferenceScore(rain, clc, slope) ==
    LET r == IF rain < 50 THEN rain ELSE 50
        s == IF slope < 30 THEN slope ELSE 30
        product == r * ReferenceImperviousness(clc, rain) * (15 + s)
        capped == IF product < 150000 THEN product ELSE 150000
    IN  (capped + 75) \div 150

\* C17: computeRunoffRisk returns null exactly for codes >= 500 and
\* otherwise the score of the reference function; rain 0 gives 0, and rain
\* 50 on code 100 with slope 30 gives 1.0 and EXTREME.
C17_RunoffMatchesReference ==
    ret.op = "computeRunoffRisk" =>
        LET in == ret.input
        IN  /\ ret.result.isNull <=> in.clcClass >= 500
            /\ ~ret.result.isNull =>
                   /\ ret.result.riskScore = ReferenceScore(in.rain24h_mm, in.clcClass, in.slope_deg)
                   /\ in.rain24h_mm = 0 => ret.result.riskScore = 0
                   /\ (in.rain24h_mm = 50 /\ in.clcClass = 100 /\ in.slope_deg = 30)
                          => (ret.result.riskScore = 1000 /\ ret.result.riskClass = "EXTREME")

\* A saturated wetland: rain above 30 mm on a 400s code
C17_Witness ==
    /\ ret.op = "computeRunoffRisk"
    /\ ret.input = [clcClass |-> 450, rain24h_mm |-> 32, slope_deg |-> 14]
    /\ ~ret.result.isNull
    /\ ret.result.riskScore = 495

\* The class of a reported score under the thresholds 0.8, 0.5 and 0.2
ClassOfScore(score) ==
    IF score > 800 THEN "EXTREME"
    ELSE IF score > 500 THEN "HIGH"
    ELSE IF score > 200 THEN "MODERATE"
    ELSE "LOW"

\* C18: the riskClass of a result is the class of the riskScore it reports.
C18_ClassOfReportedScore ==
    (ret.op = "computeRunoffRisk" /\ ~ret.result.isNull)
        => ret.result.riskClass = ClassOfScore(ret.result.riskScore)

-----------------------------------------------------------------------------
(* Networks returned earlier, while the builder goes on building *)

MaxShared == 2      \* longest asset list of the shared-builder specification

\* Two manholes 200 m apart, a pipe between them and a catchment near each
SharedAssets ==
    {PointAsset("a", 0, ""), PointAsset("b", 200, ""), LineAsset("p", <<0, 200>>),
     CatchmentAsset("c", "Polygon", <<40, 50, 40>>),
     CatchmentAsset("d", "Polygon", <<150, 190, 150>>)}

BuildFirst == nets = <<>> /\ \E assets \in SeqsUpTo(SharedAssets, MaxShared) : Build(assets, clock)

\* A later build call, for the same asset list or another one
BuildLater == nets # <<>> /\ \E assets \in SeqsUpTo(SharedAssets, MaxShared) : Build(assets, clock)

NextShared == BuildFirst \/ BuildLater \/ Construct

SpecShared == InitDefault /\ [][NextShared]_vars

\* What the holder of a Network reads through it: the node and edge objects
\* it refers to and its stats
NodesOf(net) == [i \in 1..Len(net.nodes) |-> nodeHeap[net.nodes[i]]]

EdgeSeqOf(net) == [i \in 1..Len(net.edges) |-> edgeHeap[net.edges[i]]]

Snapshot(net) == [nodes |-> NodesOf(net), edges |-> EdgeSeqOf(net), stats |-> net.stats]

\* C19: a later build call or a new builder leaves the nodes, their
\* attachedCatchments, the edges and the stats of every Network returned
\* before as they were.
C19_BuiltNetworkIsSnapshot ==
    [][\A k \in 1..Len(nets) : Snapshot(nets[k])' = Snapshot(nets[k])]_vars

-----------------------------------------------------------------------------
(* Orientation of a flat network *)

\* The two nodes of every edge of nets[k] have the same elevation
FlatNetwork(k) ==
    \A edge \in EdgesOf(nets[k]) :
        NodeOf(nets[k], edge.fromNodeId).elevation = NodeOf(nets[k], edge.toNodeId).elevation

\* The edge at address r keeps its from/to pair and is flagged flat
KeptAndFlat(r) ==
    /\ edgeHeap'[r].fromNodeId = edgeHeap[r].fromNodeId
    /\ edgeHeap'[r].toNodeId = edgeHeap[r].toNodeId
    /\ edgeHeap'[r].props.direction = "unknown"
    /\ edgeHeap'[r].props.isFlat

\* C20: orientEdges on a network whose edges all join nodes of identical
\* elevation keeps every from/to pair and sets direction 'unknown' and
\* isFlat on every edge, also on an edge whose two ends are one node.
C20_FlatNetworkAllUnknown ==
    [][\A k \in 1..Len(nets) :
           (FlatNetwork(k) /\ nets[k].edges # <<>> /\ OrientEdges(k))
               => \A i \in 1..Len(nets[k].edges) : KeptAndFlat(nets[k].edges[i])]_vars

-----------------------------------------------------------------------------
(* One asset per build call on a builder that keeps its nodes *)

\* Points of every id and declared type, a pipe shorter than the tolerance
\* and a pipe between two cells
AddAssets ==
    PointAssets \cup {LineAsset("p", <<0, 3>>), LineAsset("p", <<3, 200>>)}

\* build([asset]): one addNode call for a point, two line ends for a pipe
AddAsset == \E asset \in AddAssets : Build(<<asset>>, clock)

NextAdd == AddAsset

SpecAdd == InitBuilder /\ [][NextAdd]_vars

\* The coordinates of the call that returned net which resolved to a new node
CreatedBy(net) == {j \in 1..Len(net.resolved) : ~net.resolved[j].snapped}

\* The node object at address r keeps its id, type and position
SameIdentity(r) ==
    /\ nodeHeap'[r].id = nodeHeap[r].id
    /\ nodeHeap'[r].type = nodeHeap[r].type
    /\ nodeHeap'[r].pos = nodeHeap[r].pos

\* C21: a build call leaves the id, type and position of every node that
\* existed before as they were, creates one node per coordinate that did not
\* snap and none for a coordinate that snapped, and a coordinate that
\* snapped resolved to a node within the tolerance, whatever the id and
\* declared type of the asset.
C21_SnapKeepsFirstWriter ==
    [][Len(nets') > Len(nets) =>
           LET net == nets'[Len(nets')]
           IN  /\ \A r \in 1..Len(nodeHeap) : SameIdentity(r)
               /\ Len(nodeHeap') = Len(nodeHeap) + Cardinality(CreatedBy(net))
               /\ CreatedBy(net) = {} => nodes' = nodes
               /\ \A j \in 1..Len(net.resolved) :
                      net.resolved[j].snapped =>
                          \E r \in 1..Len(nodeHeap') :
                              /\ nodeHeap'[r].id = net.resolved[j].nodeId
                              /\ haversineDistance(nodeHeap'[r].pos, net.resolved[j].pos) < net.tol]_vars

\* An outfall with id b snapped to the manhole a built by the call before
C21_Witness ==
    /\ Len(nets) = 2
    /\ nets[1].input = <<PointAsset("a", 0, "")>>
    /\ nets[2].input = <<PointAsset("b", 3, "outfall")>>
    /\ nets[2].resolved[1].snapped
    /\ Len(nodeHeap) = 1
    /\ nodeHeap[1].id = "a" /\ nodeHeap[1].type = "manhole" /\ nodeHeap[1].pos = 0

-----------------------------------------------------------------------------
(* The propagation of computeRisk *)

\* C22: every node is reported with a flow_accumulated that is at least its
\* local_inflow, however many iterations ran.
C22_SourceTermKept ==
    (risk.done /\ ~risk.failed)
        => \A nid \in DOMAIN risk.nodes :
               risk.nodes[nid].flow_accumulated >= risk.nodes[nid].local_inflow

\* A run that converged after more than one iteration, where a node with
\* inflow of its own also received flow from upstream
C22_Witness ==
    /\ risk.done /\ ~risk.failed
    /\ risk.converged /\ risk.executed > 1 /\ risk.executed < ITERATIONS
    /\ \E nid \in DOMAIN risk.nodes :
           /\ risk.nodes[nid].local_inflow > 0
           /\ risk.nodes[nid].flow_accumulated > risk.nodes[nid].local_inflow

\* The local inflows a result reports
LocalFlows(result) == [nid \in DOMAIN result.nodes |-> result.nodes[nid].local_inflow]

\* The node flows at the start of iteration t (t = 0 is the first one)
RECURSIVE FlowAtStart(_, _, _)
FlowAtStart(net, nodeFlows, t) ==
    IF t = 0 THEN nodeFlows
    ELSE LET before == FlowAtStart(net, nodeFlows, t - 1)
         IN  DampedState(before, PushEdges(net, before, 1, [next |-> nodeFlows, edgeFlows |-> NoFlows]).next)

\* What an iteration that starts with the node flows start computes for edge:
\* the flow of its from-node times the decay, halved for an unknown
\* direction, and nothing at or below the push threshold
IterationFlow(edge, start) ==
    LET q_in == GetOr0(start, edge.fromNodeId)
    IN  IF q_in <= PushThreshold THEN 0
        ELSE IF edge.props.direction = "unknown"
        THEN MulDiv(q_in, ExpDecay(edge.length), 2 * FlowScale)
        ELSE MulDiv(q_in, ExpDecay(edge.length), FlowScale)

\* C23: the flow reported for an edge is what the last executed iteration
\* computed for it, 0 when that iteration pushed nothing along it.
C23_EdgeFlowOfLastIteration ==
    (risk.done /\ ~risk.failed)
        => LET net == nets[risk.net]
               start == FlowAtStart(net, LocalFlows(risk), risk.executed - 1)
           IN  \A edge \in EdgesOf(net) :
                   risk.edges[edge.id].flow = IterationFlow(edge, start)

\* After more than one iteration an edge is reported with a flow that is
\* not the one the first iteration computed for it
C23_Witness ==
    /\ risk.done /\ ~risk.failed
    /\ risk.executed > 1
    /\ \E edge \in EdgesOf(nets[risk.net]) :
           /\ risk.edges[edge.id].flow > 0
           /\ risk.edges[edge.id].flow # IterationFlow(edge, LocalFlows(risk))

\* The largest change of a damped node flow in the iteration that starts
\* with the node flows start
DeltaFrom(net, nodeFlows, start) ==
    MaxDelta(start, PushEdges(net, start, 1, [next |-> nodeFlows, edgeFlows |-> NoFlows]).next)

\* The node flows at the start of the iterations 0..n, one after the other
RECURSIVE FlowTrace(_, _, _, _)
FlowTrace(net, nodeFlows, n, trace) ==
    IF Len(trace) > n THEN trace
    ELSE LET before == trace[Len(trace)]
             next == PushEdges(net, before, 1, [next |-> nodeFlows, edgeFlows |-> NoFlows]).next
         IN  FlowTrace(net, nodeFlows, n, Append(trace, DampedState(before, next)))

\* C24: the loop ran a further iteration only after one whose largest
\* change was at least 0.01, at most 20 in all, and it stopped after the
\* first one whose largest change was below 0.01; without edges it stopped
\* after exactly one iteration.
C24_StopsAtFirstConvergedIteration ==
    (risk.done /\ ~risk.failed)
        => \A flow \in {FlowTrace(nets[risk.net], LocalFlows(risk), risk.executed - 1, <<LocalFlows(risk)>>)} :
               LET net == nets[risk.net]
                   local == LocalFlows(risk)
               IN  /\ risk.executed \in 1..ITERATIONS
                   /\ \A t \in 1..(risk.executed - 1) : DeltaFrom(net, local, flow[t]) >= ConvergedBelow
                   /\ risk.executed < ITERATIONS => DeltaFrom(net, local, flow[risk.executed]) < ConvergedBelow
                   /\ risk.converged <=> DeltaFrom(net, local, flow[risk.executed]) < ConvergedBelow
                   /\ net.edges = <<>> => risk.executed = 1

\* A run over edges that stopped before the cap, after an iteration that
\* still changed a flow by less than 0.01
C24_Witness ==
    /\ risk.done /\ ~risk.failed
    /\ nets[risk.net].edges # <<>>
    /\ risk.executed \in 2..(ITERATIONS - 1)
    /\ DeltaFrom(nets[risk.net], LocalFlows(risk),
                 FlowAtStart(nets[risk.net], LocalFlows(risk), risk.executed - 1)) \in 1..(ConvergedBelow - 1)

-----------------------------------------------------------------------------
(* Local inflow from catchments *)

MaxInflow == 3      \* longest asset list of the inflow specification

\* Two manholes; catchment c covers the cell of manhole a and the next one,
\* catchment e covers that next cell too, catchment d lies beside manhole b
InflowAssets ==
    {PointAsset("a", 0, ""), PointAsset("b", 200, ""),
     CatchmentAsset("c", "Polygon", <<40, 50, 40>>),
     CatchmentAsset("e", "Polygon", <<60, 90>>),
     CatchmentAsset("d", "Polygon", <<150, 190, 150>>)}

\* What the sampling service delivers for a cell: dry or at the rain cap,
\* urban fabric or forest
InflowData ==
    {[slope |-> 0, precipitation_mm |-> r, clc_code |-> c] : r \in {0, 50}, c \in {111, 311}}

BuildInflow == nets = <<>> /\ \E assets \in SeqsUpTo(InflowAssets, MaxInflow) : Build(assets, clock)

RiskInflow ==
    /\ ~risk.done
    /\ \E k \in 1..Len(nets) :
        \E cellDataMap \in [CellsToFetch(nets[k]) -> InflowData] : ComputeRisk(k, cellDataMap)

NextInflow == BuildInflow \/ RiskInflow

SpecInflow == InitDefault /\ [][NextInflow]_vars

\* The cells of the catchments attached to node that the asset store knows,
\* and the node's own cell
CellsOf(net, node) ==
    {node.h3Index}
        \cup UNION {LET found == AssetsMapGet(net.input, node.attachedCatchments[c])
                    IN  IF found = <<>> THEN {}
                        ELSE {H3Cells(found[1])[j] : j \in 1..Len(H3Cells(found[1]))}
                    : c \in 1..Len(node.attachedCatchments)}

\* The runoff-risk score computeRisk obtains for cell data d
CellScore(d) == computeRunoffRisk(RunoffInputOf(d)).riskScore

RECURSIVE SumOver(_, _)
SumOver(S, f) ==
    IF S = {} THEN 0
    ELSE LET x == CHOOSE y \in S : TRUE
         IN  f[x] + SumOver(S \ {x}, f)

\* C25: local_inflow is the sum of the scores of the distinct cells of a
\* node's catchments and its own cell, each counted once, and risk_max is
\* the largest of them.
C25_LocalInflowOverUnionOfCells ==
    [][\A k \in 1..Len(nets) :
           \A cellDataMap \in [CellsToFetch(nets[k]) -> InflowData] :
               (ComputeRisk(k, cellDataMap) /\ ~risk'.failed)
                   => \A i \in 1..Len(nets[k].nodes) :
                          LET node == nodeHeap[nets[k].nodes[i]]
                              cells == CellsOf(nets[k], node)
                              score == [h \in cells |-> CellScore(cellDataMap[h])]
                          IN  /\ risk'.nodes[node.id].local_inflow = SumOver(cells, score)
                              /\ risk'.nodes[node.id].risk_max = SetMax({score[h] : h \in cells})]_vars

\* The imperviousness band of a land-cover code
Band(clc) == clc \div 100

\* C26: two nodes without catchments whose cells have the same rain (> 0)
\* and slope but land cover of different imperviousness bands get
\* different local inflows.
C26_LandCoverOfCellCounts ==
    [][\A k \in 1..Len(nets) :
           \A cellDataMap \in [CellsToFetch(nets[k]) -> InflowData] :
               (ComputeRisk(k, cellDataMap) /\ ~risk'.failed)
                   => \A i, j \in 1..Len(nets[k].nodes) :
                          LET n == nodeHeap[nets[k].nodes[i]]
                              m == nodeHeap[nets[k].nodes[j]]
                              dn == cellDataMap[n.h3Index]
                              dm == cellDataMap[m.h3Index]
                          IN  (/\ n.attachedCatchments = <<>> /\ m.attachedCatchments = <<>>
                               /\ dn.precipitation_mm = dm.precipitation_mm
                               /\ dn.precipitation_mm > 0
                               /\ dn.slope = dm.slope
                               /\ Band(dn.clc_code) # Band(dm.clc_code))
                                  => risk'.nodes[n.id].local_inflow # risk'.nodes[m.id].local_inflow]_vars

-----------------------------------------------------------------------------
(* Distances between the nodes of one request *)

MaxNear == 3        \* longest asset list of the node-distance specification

\* Positions closer than the tolerance (0, 3), exactly the tolerance apart
\* (0, 5) and closer than the tolerance across a cell border (48, 52)
NearCoords == {0, 3, 5, 48, 52}

NearAssets ==
    {PointAsset(id, pos, "") : id \in {"a", "b"}, pos \in NearCoords}
        \cup {LineAsset("p", c) : c \in {<<3, 5>>, <<5, 3>>, <<0, 52>>, <<52, 48>>,
                                         <<48, 0>>, <<3, 48>>, <<5, 52>>, <<3, 3>>}}

BuildNear == nets = <<>> /\ \E assets \in SeqsUpTo(NearAssets, MaxNear) : Build(assets, clock)

NextNear == BuildNear

SpecNear == InitDefault /\ [][NextNear]_vars

\* The assets of a request have pairwise distinct ids
DistinctIds(assets) == \A i, j \in 1..Len(assets) : assets[i].id = assets[j].id => i = j

\* C27: in a network built on a fresh builder with the default tolerance
\* from assets of pairwise distinct ids, any two distinct nodes are at
\* least the snap tolerance apart.
C27_NodesAtLeastToleranceApart ==
    \A k \in 1..Len(nets) :
        (nets[k].fresh /\ nets[k].tol = DefaultSnapToleranceM /\ DistinctIds(nets[k].input))
            => \A i, j \in 1..Len(nets[k].nodes) :
                   i # j => haversineDistance(nodeHeap[nets[k].nodes[i]].pos,
                                              nodeHeap[nets[k].nodes[j]].pos) >= nets[k].tol

\* Two nodes exactly the tolerance apart, and a line end that snapped to a
\* node in the neighbouring cell
C27_Witness ==
    \E k \in 1..Len(nets) :
        /\ nets[k].fresh /\ DistinctIds(nets[k].input)
        /\ \E i, j \in 1..Len(nets[k].nodes) :
               haversineDistance(nodeHeap[nets[k].nodes[i]].pos,
                                 nodeHeap[nets[k].nodes[j]].pos) = DefaultSnapToleranceM
        /\ \E e \in 1..Len(nets[k].resolved) :
               /\ nets[k].resolved[e].snapped
               /\ latLngToCell(nets[k].resolved[e].pos)
                      # NodeOf(nets[k], nets[k].resolved[e].nodeId).h3Index

-----------------------------------------------------------------------------
(* Node flows from iteration to iteration *)

\* C28: from one iteration to the next no node flow decreases, up to the
\* flows that are reported, and an edge whose from-node flow exceeded the
\* push threshold at the start of an iteration is pushed along in every
\* later iteration.
C28_FlowsNeverDecrease ==
    (risk.done /\ ~risk.failed)
        => \A flow \in {FlowTrace(nets[risk.net], LocalFlows(risk), risk.executed, <<LocalFlows(risk)>>)} :
               /\ \A nid \in DOMAIN risk.nodes :
                      risk.nodes[nid].flow_accumulated = flow[risk.executed + 1][nid]
               /\ \A t \in 1..risk.executed :
                      \A nid \in DOMAIN flow[t] : flow[t + 1][nid] >= flow[t][nid]
               /\ \A edge \in EdgesOf(nets[risk.net]) :
                      \A t, u \in 1..risk.executed :
                          (t < u /\ GetOr0(flow[t], edge.fromNodeId) > PushThreshold)
                              => GetOr0(flow[u], edge.fromNodeId) > PushThreshold

\* On a cycle of two pipes between two nodes a flow grew in two successive
\* iterations, and a pipe that was not pushed along in the first iteration
\* was pushed along later
C28_Witness ==
    /\ risk.done /\ ~risk.failed
    /\ risk.executed >= 3
    /\ LET net == nets[risk.net]
           local == LocalFlows(risk)
       IN  /\ Cardinality(EdgesOf(net)) = 2
           /\ \A edge \in EdgesOf(net) : edge.fromNodeId # edge.toNodeId
           /\ \E nid \in DOMAIN local :
                  /\ FlowAtStart(net, local, 0)[nid] < FlowAtStart(net, local, 1)[nid]
                  /\ FlowAtStart(net, local, 1)[nid] < FlowAtStart(net, local, 2)[nid]
           /\ \E edge \in EdgesOf(net) :
                  /\ GetOr0(FlowAtStart(net, local, 0), edge.fromNodeId) <= PushThreshold
                  /\ GetOr0(FlowAtStart(net, local, 1), edge.fromNodeId) > PushThreshold

-----------------------------------------------------------------------------
(* Orientation called again *)

\* C29: after a call of orientEdges every edge of the network carries
\* isFlat exactly when its direction is 'unknown', also when the call is
\* not the first one on that network.
C29_FlatIffUnknown ==
    [][\A k \in 1..Len(nets) :
           OrientEdges(k)
               => \A i \in 1..Len(nets[k].edges) :
                      edgeHeap'[nets[k].edges[i]].props.isFlat
                          <=> edgeHeap'[nets[k].edges[i]].props.direction = "unknown"]_vars

-----------------------------------------------------------------------------
(* Build calls on a running clock *)

MaxTick == 1        \* milliseconds that may pass before a build call returns

\* build at a time of the caller's choosing: within the millisecond of the
\* call before, or later
BuildAt ==
    \E assets \in SeqsUpTo(SharedAssets, MaxShared) :
        \E now \in clock..(clock + MaxTick) : Build(assets, now)

NextClock == BuildAt \/ Construct

SpecClock == InitDefault /\ [][NextClock]_vars

\* C30: any two networks that build returned have different ids, whatever
\* the time between the two calls.
C30_NetworkIdsDiffer ==
    \A i, j \in 1..Len(nets) : i # j => nets[i].id # nets[j].id

====
